---- MODULE Spec2Model ----
(***************************************************************************)
(* Model of remote.py: a listener thread serving progress.log to every     *)
(* TCP client, a test sequencer (run_tests) on the main thread writing     *)
(* that file, and the main thread's final join on the listener.            *)
(*                                                                         *)
(* Text is a sequence of units.  A unit is either one of the program's     *)
(* string literals, one character of subprocess output, or "\n".           *)
(* The file is shared by the threads with no lock: a write reaches the     *)
(* file in pieces of at most BufSize units and readlines() fetches at most *)
(* BufSize units per read until a read returns nothing, so other threads   *)
(* may run between the pieces.                                             *)
(***************************************************************************)
EXTENDS Integers, Sequences, FiniteSets, TLC

\* ------------------------------------------------------------------ bounds
MaxConn == 2      \* connections that arrive during one process lifetime
MaxText == 1      \* longest stdout + stderr of one step, in units
BufSize == 3      \* units moved by one read or write of the file

\* --------------------------------------------------------------- constants
LOG_FILE == "progress.log"
NL       == "\n"
SP       == " "
DONE     == "DONE"
ERR1     == "ERROR 1: System requirements test failed. "
ERR2     == "ERROR 2: Test All GPU ResNet50 failed. "

Chars    == {"x"}
Texts    == UNION {[1..n -> Chars] : n \in 0..MaxText}
RetCodes == {0, 1, -9}     \* -9: the step was killed by a signal
\* the (stdout, stderr) pairs a step may produce
Outputs  == {p \in Texts \X Texts : Len(p[1]) + Len(p[2]) <= MaxText}
Conns    == 1..MaxConn

Min(a, b) == IF a < b THEN a ELSE b

VARIABLES
  exists,    \* progress.log exists on disk
  log,       \* content of progress.log
  mainpc,    \* position of the main thread
  step,      \* 1-based index of the step run_tests is at (0 before the first)
  wbuf,      \* log_message: text not yet written to the file
  srvpc,     \* position of the listener thread
  nconn,     \* connections that have reached the listen queue so far
  nacc,      \* connections accepted so far (the queue is first in, first out)
  hpc,       \* position of each connection's handler thread
  hoff,      \* handler's file offset
  hbuf,      \* handler's text read so far
  \* history, read by the properties only
  exit0,     \* for each step completed so far, in order: did it exit 0
  failure,   \* stdout and stderr of the step that failed, if one has
  invoked,   \* steps whose subprocess has been started
  ntrunc,    \* truncations of the file done by this process
  stale,     \* leading units of log that were written by a previous process
  nappend,   \* pieces appended to the file by this process
  stable,    \* contents the file has held while no write was in progress
  rd         \* per handler: what had happened when it opened the file

vars == <<exists, log, mainpc, step, wbuf, srvpc, nconn, nacc, hpc,
          hoff, hbuf, exit0, failure, invoked, ntrunc, stale, nappend,
          stable, rd>>

mainVars == <<mainpc, step, wbuf>>
fileVars == <<exists, log>>
srvVars  == <<srvpc, nconn, nacc>>
hVars    == <<hpc, hoff, hbuf, rd>>
histVars == <<exit0, failure, invoked, ntrunc, stale, nappend, stable>>

NoFailure == [step |-> 0, stdout |-> <<>>, stderr |-> <<>>]
NoRd      == [trunc |-> 0, append |-> 0, ended |-> FALSE, before |-> {}]

\* ------------------------------------------------------------ pure helpers
\* the "\n" is forgotten
LineNoNewline(message) == message

\* message + '\n'
Line(message) == message \o <<NL>>

\* "ERROR 1: System requirements test failed. " + stdout + " " + stderr
ErrorMessage1(stdout, stderr) == <<ERR1>> \o stdout \o <<SP>> \o stderr

\* stdout and stderr change places
ErrorMessage2Swapped(stdout, stderr) == <<ERR2>> \o stderr \o <<SP>> \o stdout

\* "ERROR 2: Test All GPU ResNet50 failed. " + stdout + " " + stderr
ErrorMessage2(stdout, stderr) == <<ERR2>> \o stdout \o <<SP>> \o stderr

\* result.returncode == 0
Passed(returncode) == returncode = 0

\* the newest text is put first
Prepended(content, piece) == piece \o content

\* file.write on a file opened with 'a': the text goes to the end
Appended(content, piece) == content \o piece

\* the file is opened with 'a': nothing is discarded
OpenAppend(content) == content

\* open(LOG_FILE, 'w'): the content the file has once it is opened
OpenWrite(content) == <<>>

\* the handler opens the file with 'w+': it is emptied
OpenReadTruncating(content) == <<>>

\* open(LOG_FILE, 'r'): the content the file has once it is opened
OpenRead(content) == content

\* one read of the file at offset off
ReadChunk(content, off) ==
  IF off >= Len(content) THEN <<>>
  ELSE SubSeq(content, off + 1, Min(off + BufSize, Len(content)))

\* the piece of text one write moves to the file
WriteChunk(text) == SubSeq(text, 1, Min(BufSize, Len(text)))

\* file.read().splitlines(): the lines lose their "\n"
RECURSIVE SplitLinesNoEnds(_)
SplitLinesNoEnds(text) ==
  IF text = <<>> THEN <<>>
  ELSE LET nls == {i \in 1..Len(text) : text[i] = NL}
           cut == IF nls = {} THEN Len(text) + 1
                  ELSE CHOOSE i \in nls : \A j \in nls : i <= j
       IN <<SubSeq(text, 1, cut - 1)>>
            \o SplitLinesNoEnds(SubSeq(text, cut + 1, Len(text)))

\* file.readlines(): text cut after every "\n"
RECURSIVE SplitLines(_)
SplitLines(text) ==
  IF text = <<>> THEN <<>>
  ELSE LET nls == {i \in 1..Len(text) : text[i] = NL}
           cut == IF nls = {} THEN Len(text)
                  ELSE CHOOSE i \in nls : \A j \in nls : i <= j
       IN <<SubSeq(text, 1, cut)>> \o SplitLines(SubSeq(text, cut + 1, Len(text)))

\* ''.join(lines)
RECURSIVE JoinLines(_)
JoinLines(lines) ==
  IF lines = <<>> THEN <<>> ELSE Head(lines) \o JoinLines(Tail(lines))

\* the return after the first error entry is missing
AfterLogNoReturn(s) == IF s = 1 THEN "step2" ELSE "join"

\* where run_tests goes after log_message returns at step s
AfterLog(s) == "join"

\* the main thread joins the listener before it runs the tests
AfterStartJoin == "join"

\* where the main thread goes after server_thread.start(): into run_tests
AfterStart == "reset"

\* "TESTED" is logged after all when step 1 passes
PassNoteTested == <<"TESTED : System requirements test passed.", NL>>

\* what run_tests appends to the file when step 1 passes: nothing (line 50)
PassNote == <<>>

\* handle_connection is called in the listener's own thread: its exception
\* ends the accept loop
ErrorPropagates(pc) == "dead"

\* the listener's position after a handler thread has raised: the exception
\* ends that thread only
AfterHandlerError(pc) == pc

\* the listener runs the handler itself and does not come back
AfterDispatchInline == "serving"

\* the listener's position after client_handler.start(): back in accept()
AfterDispatch == "accept"

\* the same connection is taken again
SameAccepted(n) == n

\* the number of connections accepted once accept() has returned again
NextAccepted(n) == n + 1

\* the logs a previous process may have left behind
PriorLogs == {Line(<<DONE>>), Line(ErrorMessage1(<<"x">>, <<>>))}

\* -------------------------------------------------------------------- Init
Init ==
  /\ exists \in BOOLEAN
  /\ log \in (IF exists THEN PriorLogs ELSE {<<>>})
  /\ mainpc = "spawn"
  /\ step = 0
  /\ wbuf = <<>>
  /\ srvpc = "unstarted"
  /\ nconn = 0
  /\ nacc = 0
  /\ hpc = [c \in Conns |-> "none"]
  /\ hoff = [c \in Conns |-> 0]
  /\ hbuf = [c \in Conns |-> <<>>]
  /\ exit0 = <<>>
  /\ failure = NoFailure
  /\ invoked = {}
  /\ ntrunc = 0
  /\ stale = Len(log)
  /\ nappend = 0
  /\ stable = IF exists THEN {log} ELSE {}
  /\ rd = [c \in Conns |-> NoRd]

SeqEnded == mainpc \in {"join", "done"}

\* ------------------------------------------------------------- main thread
\* server_thread.start()
Spawn ==
  /\ mainpc = "spawn"
  /\ mainpc' = AfterStart
  /\ srvpc' = "bind"
  /\ UNCHANGED <<step, wbuf, fileVars, nconn, nacc, hVars, histVars>>

\* run_tests: with open(LOG_FILE, 'w') as log_file: log_file.write("")
Reset ==
  /\ mainpc = "reset"
  /\ exists' = TRUE
  /\ log' = OpenWrite(log)
  /\ stale' = Min(stale, Len(log'))
  /\ ntrunc' = ntrunc + 1
  /\ stable' = stable \cup {log'}
  /\ mainpc' = "step1"
  /\ step' = 1
  /\ UNCHANGED <<wbuf, srvVars, hVars, exit0, failure, invoked, nappend>>

\* result = subprocess.run([... 'systemreqtest.py'] ...) and the branch on it
Step1 ==
  /\ mainpc = "step1"
  /\ \E rc \in RetCodes, o \in Outputs :
       /\ exit0' = Append(exit0, rc = 0)
       /\ IF Passed(rc)
            THEN /\ mainpc' = "step2"
                 /\ step' = 2
                 /\ wbuf' = wbuf
                 /\ failure' = failure
                 /\ log' = log \o PassNote
            ELSE /\ mainpc' = "log"
                 /\ step' = step
                 /\ wbuf' = Line(ErrorMessage1(o[1], o[2]))
                 /\ failure' = [step |-> 1, stdout |-> o[1], stderr |-> o[2]]
                 /\ log' = log
  /\ invoked' = invoked \cup {1}
  /\ UNCHANGED <<exists, srvVars, hVars, ntrunc, stale, nappend, stable>>

\* result = subprocess.run([... 'testAllGpusResNet50.py'] ...) and the branch
Step2 ==
  /\ mainpc = "step2"
  /\ \E rc \in RetCodes, o \in Outputs :
       /\ exit0' = Append(exit0, rc = 0)
       /\ wbuf' = IF Passed(rc) THEN Line(<<DONE>>)
                  ELSE Line(ErrorMessage2(o[1], o[2]))
       /\ failure' = IF Passed(rc) THEN failure
                     ELSE [step |-> 2, stdout |-> o[1], stderr |-> o[2]]
  /\ mainpc' = "log"
  /\ invoked' = invoked \cup {2}
  /\ UNCHANGED <<step, fileVars, srvVars, hVars, ntrunc, stale, nappend,
                 stable>>

\* log_message: one piece of the text reaches the end of the file
LogWrite ==
  /\ mainpc = "log"
  /\ wbuf # <<>>
  /\ LET piece == WriteChunk(wbuf)
     IN /\ log' = Appended(log, piece)
        /\ wbuf' = SubSeq(wbuf, Len(piece) + 1, Len(wbuf))
  /\ nappend' = nappend + 1
  /\ stable' = IF wbuf' = <<>> THEN stable \cup {log'} ELSE stable
  /\ UNCHANGED <<exists, mainpc, step, srvVars, hVars, exit0, failure,
                 invoked, ntrunc, stale>>

\* log_message: the file is closed, log_message and run_tests return
LogClose ==
  /\ mainpc = "log"
  /\ wbuf = <<>>
  /\ mainpc' = AfterLog(step)
  /\ step' = IF AfterLog(step) = "step2" THEN 2 ELSE step
  /\ UNCHANGED <<wbuf, fileVars, srvVars, hVars, exit0, failure, invoked,
                 ntrunc, stale, nappend, stable>>

\* server_thread.join() returns once the listener thread has ended
Join ==
  /\ mainpc = "join"
  /\ srvpc = "dead"
  /\ mainpc' = "done"
  /\ UNCHANGED <<step, wbuf, fileVars, srvVars, hVars, histVars>>

\* --------------------------------------------------------- listener thread
\* start_server: socket, setsockopt, bind, listen
Bind ==
  /\ srvpc = "bind"
  /\ srvpc' \in {"accept", "dead"}
  /\ UNCHANGED <<mainVars, fileVars, nconn, nacc, hVars, histVars>>

\* a client connects; before listen() the connection is refused
Connect ==
  /\ srvpc = "accept"
  /\ nconn < MaxConn
  /\ nconn' = nconn + 1
  /\ hpc' = [hpc EXCEPT ![nconn + 1] = "queued"]
  /\ UNCHANGED <<mainVars, fileVars, srvpc, nacc, hoff, hbuf, rd, histVars>>

\* accept() returns the oldest queued connection; its handler thread starts
Accept ==
  /\ srvpc = "accept"
  /\ nacc < nconn
  /\ nacc' = NextAccepted(nacc)
  /\ hpc' = [hpc EXCEPT ![nacc + 1] = "open"]
  /\ srvpc' = AfterDispatch
  /\ UNCHANGED <<mainVars, fileVars, nconn, hoff, hbuf, rd, histVars>>

\* --------------------------------------------------------- handler threads
\* what handler c passes to sendall: ''.join(lines)
Lines(c) == SplitLines(hbuf[c])
Sent(c)  == JoinLines(Lines(c))

\* the handlers that opened the truncated file and have not ended: those whose
\* read began before the read of a handler that opens the file now
Reading ==
  {d \in Conns : ntrunc = 1 /\ hpc[d] \in {"read", "close"} /\ rd[d].trunc = 1}

\* handler c ends: what was recorded of it is dropped
Forget(c) ==
  [d \in Conns |-> IF d = c THEN NoRd ELSE [rd[d] EXCEPT !.before = @ \ {c}]]

\* handle_connection: with open(LOG_FILE, 'r') as file
HOpen(c) ==
  /\ hpc[c] = "open"
  /\ IF exists
       THEN /\ hpc' = [hpc EXCEPT ![c] = "read"]
            /\ log' = OpenRead(log)
            /\ rd' = [rd EXCEPT ![c] = [trunc |-> ntrunc, append |-> nappend,
                                        ended |-> SeqEnded,
                                        before |-> Reading]]
            /\ srvpc' = srvpc
       ELSE /\ hpc' = [hpc EXCEPT ![c] = "failed"]   \* FileNotFoundError
            /\ srvpc' = AfterHandlerError(srvpc)
            /\ UNCHANGED <<log, rd>>
  /\ UNCHANGED <<mainVars, exists, nconn, nacc, hoff, hbuf, histVars>>

\* handle_connection: one read of file.readlines().  An empty read ends
\* readlines(); then, if lines: client_socket.sendall(''.join(lines)...),
\* which gives the client all of it or fails because the client has gone
HRead(c) ==
  /\ hpc[c] = "read"
  /\ LET chunk == ReadChunk(log, hoff[c])
     IN IF chunk # <<>>
          THEN /\ hbuf' = [hbuf EXCEPT ![c] = @ \o chunk]
               /\ hoff' = [hoff EXCEPT ![c] = @ + Len(chunk)]
               /\ UNCHANGED <<hpc, rd, srvpc>>
          ELSE \/ /\ hpc' = [hpc EXCEPT ![c] = "close"]
                  /\ UNCHANGED <<hoff, hbuf, rd, srvpc>>
               \/ /\ Lines(c) # <<>>
                  /\ hpc' = [hpc EXCEPT ![c] = "failed"]
                  /\ hoff' = [hoff EXCEPT ![c] = 0]
                  /\ hbuf' = [hbuf EXCEPT ![c] = <<>>]
                  /\ rd' = Forget(c)
                  /\ srvpc' = AfterHandlerError(srvpc)
  /\ UNCHANGED <<mainVars, fileVars, nconn, nacc, histVars>>

\* handle_connection: client_socket.close(), and the thread ends
HClose(c) ==
  /\ hpc[c] = "close"
  /\ hpc' = [hpc EXCEPT ![c] = "closed"]
  /\ hoff' = [hoff EXCEPT ![c] = 0]
  /\ hbuf' = [hbuf EXCEPT ![c] = <<>>]
  /\ rd' = Forget(c)
  /\ UNCHANGED <<mainVars, fileVars, srvVars, histVars>>

Next ==
  \/ Spawn
  \/ Reset
  \/ Step1
  \/ Step2
  \/ LogWrite
  \/ LogClose
  \/ Join
  \/ Bind
  \/ Connect
  \/ Accept
  \/ \E c \in Conns : HOpen(c)
  \/ \E c \in Conns : HRead(c)
  \/ \E c \in Conns : HClose(c)

Spec == Init /\ [][Next]_vars

\* the main thread is scheduled again and again, and a step's subprocess ends
MainStep == Spawn \/ Reset \/ Step1 \/ Step2 \/ LogWrite \/ LogClose

FairSpec == Spec /\ WF_vars(MainStep)

\* the process ends when the main thread and every other thread have ended
ProcessExited ==
  /\ mainpc = "done"
  /\ srvpc = "dead"
  /\ \A c \in Conns : hpc[c] \in {"none", "closed", "failed"}

\* ================================================================== claims
Range(t) == {t[i] : i \in 1..Len(t)}

\* the two shapes of a complete log entry, written out unit by unit
IsDone(t) == t = <<"DONE", "\n">>
IsErrorEntry(t) ==
  \E o \in Outputs, e \in {"ERROR 1: System requirements test failed. ",
                           "ERROR 2: Test All GPU ResNet50 failed. "} :
    t = <<e>> \o o[1] \o <<" ">> \o o[2] \o <<"\n">>

\* handler c has read the file and sent what it read; it has not closed yet
Served(c) == hpc[c] = "close"

\* C1: once run_tests has returned, the log is exactly one error entry or
\* exactly the line DONE, never both and never neither; so a log that is
\* neither means run_tests has not finished its last write.
C1_ExactlyOneResult ==
  /\ SeqEnded => (IsErrorEntry(log) # IsDone(log))
  /\ (~IsErrorEntry(log) /\ ~IsDone(log)) => ~SeqEnded

C1_Witness == SeqEnded /\ IsErrorEntry(log) /\ exit0 = <<TRUE, FALSE>>

\* C2: when step 1 exits non-zero, step 2 is never started and the log never
\* holds an ERROR 2 entry, DONE or anything step 2 printed; step 2 is started
\* only after step 1 has exited 0.
C2_ShortCircuit ==
  /\ (exit0 # <<>> /\ ~exit0[1]) =>
       /\ 2 \notin invoked
       /\ Len(exit0) = 1
       /\ failure.step = 1
       /\ "ERROR 2: Test All GPU ResNet50 failed. " \notin Range(log)
       /\ "DONE" \notin Range(log)
  /\ 2 \in invoked => (exit0 # <<>> /\ exit0[1])

C2_Witness == SeqEnded /\ exit0 = <<FALSE>> /\ log # <<>>

\* C3: the log at END is determined by the step results alone: DONE if both
\* steps exit 0, else the error entry numbered with the failing step and
\* holding that step's stdout, a space, and its stderr.
C3_Expected ==
  IF exit0 = <<TRUE, TRUE>> THEN <<"DONE", "\n">>
  ELSE IF ~exit0[1]
    THEN <<"ERROR 1: System requirements test failed. ">> \o failure.stdout
           \o <<" ">> \o failure.stderr \o <<"\n">>
    ELSE <<"ERROR 2: Test All GPU ResNet50 failed. ">> \o failure.stdout
           \o <<" ">> \o failure.stderr \o <<"\n">>

C3_FinalLog ==
  SeqEnded =>
    /\ log = C3_Expected
    /\ exit0 \in {<<TRUE, TRUE>>, <<FALSE>>, <<TRUE, FALSE>>}
    /\ failure.step = (IF exit0 = <<TRUE, TRUE>> THEN 0 ELSE Len(exit0))

C3_Witness ==
  /\ SeqEnded
  /\ exit0 = <<TRUE, FALSE>>
  /\ log = <<"ERROR 2: Test All GPU ResNet50 failed. ", " ", "x", "\n">>

\* C4: a handler running beside log_message never sends a partly written
\* line: what it sends is a content the file held with no write in progress.
C4_NoTornSnapshot ==
  \A c \in Conns : (Served(c) /\ rd[c].trunc = 1) => Sent(c) \in stable

\* C5: a handler that opens the file after the run's append has completed
\* sends the whole log, which then is DONE or the error entry.
C5_SeesCompletedAppend ==
  \A c \in Conns :
    (Served(c) /\ rd[c].ended) =>
      /\ Sent(c) = log
      /\ IsDone(log) \/ IsErrorEntry(log)

C5_Witness ==
  \E c \in Conns : Served(c) /\ rd[c].ended /\ Sent(c) = <<"DONE", "\n">>

\* C6: a client served before the run's first append receives nothing, never
\* what a previous run left in the file.
C6_EmptyBeforeFirstAppend ==
  \A c \in Conns : (Served(c) /\ nappend = 0) => Sent(c) = <<>>

\* C7: two handlers with no append between the start of the earlier read and
\* the end of the later read send the same content.
C7_IdenticalReads ==
  \A c, d \in Conns :
    (/\ Served(c) /\ Served(d)
     /\ rd[c].append = nappend /\ rd[d].append = nappend) => Sent(c) = Sent(d)

\* C8: the file is truncated exactly once, before step 1 starts and before
\* anything is appended, and from then on holds nothing of the previous run.
C8_Truncation ==
  /\ ntrunc <= 1
  /\ (invoked # {} \/ nappend > 0 \/ SeqEnded) => ntrunc = 1
  /\ ntrunc = 1 => (stale = 0 /\ exists)
  /\ (ntrunc = 1 /\ nappend = 0) => log = <<>>

C8_Witness ==
  /\ <<"DONE", "\n">> \in stable
  /\ ntrunc = 1
  /\ stale = 0
  /\ IsErrorEntry(log)

\* C9: once run_tests has returned, the log never changes again and
\* run_tests never runs again, whatever connections are served afterwards.
C9_FrozenLog ==
  [][SeqEnded => /\ log' = log
                 /\ exists' = exists
                 /\ SeqEnded'
                 /\ <<exit0, invoked, ntrunc, nappend>>' = <<exit0, invoked, ntrunc, nappend>>]_vars

C9_Witness ==
  /\ SeqEnded
  /\ \E c, d \in Conns : hpc[c] = "closed" /\ Served(d) /\ rd[d].ended /\ Sent(d) = log

\* C10: after run_tests has returned the process does not exit: the main
\* thread stays blocked in join on the listener thread.
C10_StaysAlive == SeqEnded => (mainpc = "join" /\ ~ProcessExited)

\* C11: a bind failure aborts the process at startup: once the listener has
\* died the process does nothing more: no step is started, the file is not
\* written, no connection is accepted and the listener is not restarted.
C11_BindFailureAborts ==
  [][srvpc = "dead" => /\ log' = log
                       /\ exists' = exists
                       /\ invoked' = invoked
                       /\ nacc' = nacc
                       /\ srvpc' = "dead"]_vars

\* C12: a failure inside one handler (the file cannot be opened, or sendall
\* fails) leaves the listener, the sequencer, the file and every other
\* handler as they were.
C12_ErrorIsolated ==
  [][\A c \in Conns :
       (hpc[c] # "failed" /\ hpc'[c] = "failed") =>
         /\ srvpc' = srvpc /\ nconn' = nconn /\ nacc' = nacc
         /\ mainpc' = mainpc /\ step' = step /\ wbuf' = wbuf
         /\ log' = log /\ exists' = exists
         /\ \A d \in Conns \ {c} :
              hpc'[d] = hpc[d] /\ hbuf'[d] = hbuf[d] /\ hoff'[d] = hoff[d]]_vars

\* one handler has failed; the listener went on and another client was served
C12_Witness ==
  \E c, d \in Conns :
    /\ hpc[c] = "failed" /\ c < d
    /\ Served(d) /\ Sent(d) = log /\ log # <<>>
    /\ srvpc = "accept"

\* C13: the listener is started before run_tests and never holds it up: with
\* the main thread scheduled and every subprocess ending, run_tests truncates
\* the file, runs its steps, writes its one result and returns, whatever the
\* listener and the handlers do meanwhile.
C13_SequencerEnds ==
  <>(/\ SeqEnded
     /\ srvpc # "unstarted"
     /\ ntrunc = 1
     /\ invoked # {}
     /\ IsDone(log) \/ IsErrorEntry(log))

\* run_tests has returned although the listener has not even bound yet
C13_Witness == SeqEnded /\ srvpc = "bind" /\ IsDone(log) /\ ntrunc = 1

\* C14: after handing a connection to a new thread the listener is back in
\* accept(): whenever it has bound and a connection is waiting, accepting it
\* is possible at once, however many handlers are still running.
C14_AcceptNeverWaits ==
  (srvpc \notin {"unstarted", "bind", "dead"} /\ nacc < nconn) => ENABLED Accept

\* two handlers are in progress at the same time, the listener accepting again
C14_Witness ==
  \E c, d \in Conns :
    /\ c < d
    /\ hpc[c] = "read" /\ hpc[d] = "read"
    /\ srvpc = "accept"

\* C15: every accepted connection is closed by its own handler whatever the
\* outcome: no handler thread ends without having called close().
C15_AlwaysClosed == \A c \in Conns : hpc[c] # "failed"

\* C16: a passed step 1 leaves no trace: from the truncation until step 2
\* has finished the log is empty and nothing has been appended, and a client
\* whose read falls wholly in that interval is sent nothing.
C16_NoIntermediateLine ==
  /\ (ntrunc = 1 /\ mainpc \in {"step1", "step2"}) =>
       /\ log = <<>>
       /\ nappend = 0
       /\ wbuf = <<>>
  /\ mainpc = "step2" => exit0 = <<TRUE>>
  /\ \A c \in Conns :
       (Served(c) /\ rd[c].trunc = 1 /\ nappend = 0) => Sent(c) = <<>>

\* step 1 has passed, step 2 has not finished, and a client that read the
\* truncated file got nothing
C16_Witness ==
  /\ mainpc = "step2"
  /\ exit0 = <<TRUE>>
  /\ \E c \in Conns : Served(c) /\ rd[c].trunc = 1 /\ Sent(c) = <<>>

\* C17: only run_tests writes the log: every step that changes the file's
\* content or creates it is the main thread truncating or appending; a step
\* of the listener or of a handler leaves the file as it is.
C17_SingleWriter ==
  [][/\ (log' # log \/ exists' # exists) =>
          /\ mainpc \in {"reset", "log"}
          /\ hVars' = hVars
          /\ srvVars' = srvVars
     /\ (hVars' # hVars \/ srvVars' # srvVars) =>
          /\ log' = log
          /\ exists' = exists]_vars

\* a handler is part-way through reading while the main thread is part-way
\* through its append
C17_Witness ==
  /\ mainpc = "log"
  /\ nappend > 0
  /\ wbuf # <<>>
  /\ \E c \in Conns : hpc[c] = "read" /\ hbuf[c] # <<>> /\ rd[c].trunc = 1

IsPrefix(s, t) == Len(s) <= Len(t) /\ SubSeq(t, 1, Len(s)) = s

\* C18 as stated: of two handlers that both opened the file after the
\* truncation, the one whose read began earlier was sent a prefix of what the
\* one whose read began later was sent.
C18_EarlierReaderPrefix ==
  \A c, d \in Conns :
    (/\ Served(c) /\ Served(d)
     /\ rd[c].trunc = 1 /\ rd[d].trunc = 1
     /\ c \in rd[d].before) => IsPrefix(Sent(c), Sent(d))

\* C18 amended: of two handlers that both opened the file after the
\* truncation, the one whose read finished earlier was sent a prefix of what
\* the one whose read finishes later is sent.
C18_EarlierFinishedPrefix ==
  [][\A c, d \in Conns :
       (/\ Served(c) /\ rd[c].trunc = 1
        /\ hpc[d] = "read" /\ hpc'[d] = "close" /\ rd[d].trunc = 1)
         => IsPrefix(Sent(c), Sent(d)')]_vars

\* two clients of the same run were sent different contents, the shorter one
\* a part of the entry the other was sent in full
C18_Witness ==
  \E c, d \in Conns :
    /\ Served(c) /\ Served(d)
    /\ rd[c].trunc = 1 /\ rd[d].trunc = 1
    /\ Sent(c) # <<>>
    /\ Len(Sent(c)) < Len(Sent(d))
    /\ Sent(d) = log

\* the moves of a connection: queued, accepted and given its handler, the
\* file opened, the content read and sent, the socket closed; or the handler
\* ended by an exception at the open or at the send
Moves ==
  {<<"none", "queued">>, <<"queued", "open">>, <<"open", "read">>,
   <<"open", "failed">>, <<"read", "close">>, <<"read", "failed">>,
   <<"close", "closed">>}

\* C19: the connections accepted so far are exactly those that were given a
\* handler, each given it once, at the accept of that very connection; a
\* handler only moves forward (open, read, send, close), so it sends at most
\* once; what it has sent is not changed afterwards, and once it has closed
\* or failed nothing more happens on its connection.  A step concerns one
\* connection only.
C19_OneHandlerOneSnapshot ==
  [][\A c \in Conns :
       /\ hpc'[c] \notin {"none", "queued"} <=> c <= nacc'
       /\ hpc'[c] # hpc[c] =>
            /\ <<hpc[c], hpc'[c]>> \in Moves
            /\ \A d \in Conns \ {c} : hpc'[d] = hpc[d]
       /\ hpc'[c] = "open" => (hpc[c] = "open" \/ (c = nacc + 1 /\ nacc' = c))
       /\ (hpc[c] = "close" /\ hpc'[c] = "close") => hbuf'[c] = hbuf[c]
       /\ hpc[c] \in {"closed", "failed"} =>
            /\ hpc'[c] = hpc[c]
            /\ hbuf'[c] = <<>>
            /\ hoff'[c] = hoff[c]
       /\ (hpc'[c] = hpc[c] /\ hpc[c] # "read") =>
            hbuf'[c] = hbuf[c] /\ hoff'[c] = hoff[c]]_vars

\* every connection made was accepted; one has been served and closed, the
\* other has been sent the log and is about to be closed
C19_Witness ==
  /\ nacc = nconn
  /\ \E c, d \in Conns :
       /\ hpc[c] = "closed"
       /\ Served(d)
       /\ Sent(d) # <<>>

====
